---------------------------- MODULE Spec2Model ----------------------------
(***************************************************************************)
(* bcmp: enumeration of the common substrings of two byte slices.          *)
(*                                                                         *)
(* The module models the two match enumerators of the crate,               *)
(* HashMatchIterator (src/src/hashmatch.rs) and TreeMatchIterator          *)
(* (src/src/treematch.rs, with the suffix tree built by                    *)
(* SuffixTree::extend_tree), as one state machine: a behaviour constructs  *)
(* one enumerator over (first, second) and then calls next() and reset()   *)
(* on it.  Byte slices are 0-indexed in the code; they are TLA+ sequences  *)
(* here and At(data, i) reads data[i].                                     *)
(*                                                                         *)
(* Three specifications share the variables:                               *)
(*   Spec            one enumerator, its next() and reset() calls;         *)
(*   SpecSuffixTree  SuffixTree::new(first), phase by phase;               *)
(*   SpecReducers    one call of longest_common_substring,                 *)
(*                   longest_common_substrings, patch_set (src/src/lib.rs, *)
(*                   over MatchIterator) or unique_strings                 *)
(*                   (src/src/hashmatch.rs), one loop iteration a step.    *)
(* The variables a specification does not use keep their idle values.      *)
(***************************************************************************)
EXTENDS Integers, Sequences, FiniteSets, Bags, TLC

(***************************************************************************)
(* Bounds of the model.                                                    *)
(***************************************************************************)
MaxLenA == 6          \* longest first slice given to TreeMatch
MaxLenB == 2          \* longest second slice given to TreeMatch
MaxLenH == 4          \* longest slice given to HashMatch
MaxKey == 2           \* largest key width / minimal length explored
UsizeBits == 16       \* width of usize in the model (64 in the build)
MaxLenT == 8          \* longest slice a suffix tree is built for on its own
MaxLenRA == 3         \* longest first slice given to the functions of lib.rs
MaxLenRB == 5         \* longest second slice given to the functions of lib.rs
MaxNumber == 2        \* largest number asked of longest_common_substrings

\* The byte values the slices are drawn from.
Alphabet == {0, 1}

\* The byte values of the slices a suffix tree is built for on its own: the
\* two ends of the range of u8.
TreeBytes == {0, 255}

\* The end-of-data slot of Node::edges, and the number of slots.
EndSlot == 256
NumSlots == 257

\* Option::None for node indices and suffix links.
NONE == -1

\* size_of::<T>() of the implementors of HashMatchKey.
SupportedKeys == {1, 2, 3, 4, 5, 6, 7, 8, 10, 12, 14, 16, 20, 24, 28, 32, 40, 48, 56, 64}

UsizeModulus == 2 ^ UsizeBits
IsizeMax == 2 ^ (UsizeBits - 1) - 1

\* The elements of a sequence.
Range(seq) == {seq[n] : n \in 1..Len(seq)}

\* Every sequence over S of length at most n.
SeqsUpTo(S, n) == UNION {[1..m -> S] : m \in 0..n}

At(data, i) == data[i + 1]

\* HashMap::insert / array slot assignment on a finite map.
Put(f, key, val) == [x \in (DOMAIN f) \cup {key} |-> IF x = key THEN val ELSE f[x]]

EmptyMap == [x \in {} |-> 0]

\* usize subtraction: without overflow checks the result wraps.
WrappingSub(a, b) == (a - b + UsizeModulus) % UsizeModulus
WrappingAdd(a, b) == (a + b) % UsizeModulus

\* A variant of Match::new that swaps the two positions.
Match_swapped(first_pos, second_pos, length) ==
    [first_pos |-> second_pos, second_pos |-> first_pos, length |-> length]

\* Match::new
Match(first_pos, second_pos, length) ==
    [first_pos |-> first_pos, second_pos |-> second_pos, length |-> length]

first_end(m) == m.first_pos + m.length
second_end(m) == m.second_pos + m.length

(***************************************************************************)
(* HashMatch                                                               *)
(***************************************************************************)

\* Cursor::unpack::<T>() at position pos: the k bytes at pos, or an error
\* (the empty tuple stands for Err, which unwrap() turns into a panic).
Unpack(data, pos, k) ==
    IF pos + k <= Len(data) THEN SubSeq(data, pos + 1, pos + k) ELSE <<>>

\* len - size_of::<T>() + 1, as the build computes it: -1 stands for the
\* panic of a build with overflow checks.
WindowCount(len, k, checks) ==
    IF len >= k THEN len - k + 1
    ELSE IF checks THEN -1
    ELSE WrappingAdd(WrappingSub(len, k), 1)

\* build_map: every window of width k of data, with its positions in
\* ascending order.
RECURSIVE build_map_loop(_, _, _, _, _)
build_map_loop(data, k, size, i, map) ==
    IF i >= size THEN map
    ELSE LET v == Unpack(data, i, k)
             bucket == IF v \in DOMAIN map THEN map[v] ELSE <<>>
         IN  build_map_loop(data, k, size, i + 1, Put(map, v, Append(bucket, i)))

\* A variant of build_map that leaves out the last window.
build_map_short(data, k, size) == build_map_loop(data, k, size - 1, 0, EmptyMap)

build_map(data, k, size) == build_map_loop(data, k, size, 0, EmptyMap)

\* HashMatchIterator::new.  panic: the subtraction overflowed under
\* overflow checks, or the map could not be allocated.
HashMatchIterator_new(first, second, k, checks) ==
    LET second_len == WindowCount(Len(second), k, checks)
        size == WindowCount(Len(first), k, checks)
        bad == second_len < 0 \/ size < 0 \/ size > IsizeMax
    IN  [panic |-> bad,
         second_len |-> IF bad THEN 0 ELSE second_len,
         i |-> 0,
         j |-> 0,
         map |-> IF bad THEN EmptyMap ELSE build_map(first, k, size),
         matched |-> EmptyMap]

\* A variant of the extension loop that does not compare the bytes.
RECURSIVE match_length_no_compare(_, _, _, _, _)
match_length_no_compare(first, second, first_pos, j, idx) ==
    IF first_pos + idx < Len(first) /\ j + idx < Len(second)
    THEN match_length_no_compare(first, second, first_pos, j, idx + 1)
    ELSE idx

\* A variant of the extension loop that stops one byte before the end of
\* first.
RECURSIVE match_length_short(_, _, _, _, _)
match_length_short(first, second, first_pos, j, idx) ==
    IF /\ first_pos + idx + 1 < Len(first)
       /\ j + idx < Len(second)
       /\ At(first, first_pos + idx) = At(second, j + idx)
    THEN match_length_short(first, second, first_pos, j, idx + 1)
    ELSE idx

\* The extension loop of next(): the number of equal bytes from
\* (first_pos, j) on.
RECURSIVE match_length_loop(_, _, _, _, _)
match_length_loop(first, second, first_pos, j, idx) ==
    IF /\ first_pos + idx < Len(first)
       /\ j + idx < Len(second)
       /\ At(first, first_pos + idx) = At(second, j + idx)
    THEN match_length_loop(first, second, first_pos, j, idx + 1)
    ELSE idx

\* A variant of the test that is off by one.
HashSuppressed_off(matched, delta, j) ==
    delta \in DOMAIN matched /\ matched[delta] > j + 1

\* The test of hashmatch.rs:137: the diagonal already reaches position j.
HashSuppressed(matched, delta, j) ==
    delta \in DOMAIN matched /\ matched[delta] >= j

\* A variant of next that starts over once it has returned None.
RECURSIVE HashMatchIterator_next_rewind(_, _, _, _)
HashMatchIterator_next_rewind(it, first, second, k) ==
    IF ~(it.j < it.second_len)
    THEN [it |-> [it EXCEPT !.i = 0, !.j = 0, !.matched = EmptyMap],
          ret |-> "None", m |-> Match(0, 0, 0)]
    ELSE LET v == Unpack(second, it.j, k)
         IN  IF v = <<>>
             THEN [it |-> [it EXCEPT !.panic = TRUE], ret |-> "Panic", m |-> Match(0, 0, 0)]
             ELSE IF v \in DOMAIN it.map /\ it.i < Len(it.map[v])
             THEN LET first_pos == At(it.map[v], it.i)
                      delta == first_pos - it.j
                      it1 == [it EXCEPT !.i = @ + 1]
                  IN  IF ~(delta \in DOMAIN it.matched /\ it.matched[delta] >= it.j)
                      THEN LET idx == match_length_loop(first, second, first_pos, it.j, 0)
                           IN  [it |-> [it1 EXCEPT !.matched = Put(@, delta, it.j + idx)],
                                ret |-> "Some",
                                m |-> Match(first_pos, it.j, idx)]
                      ELSE HashMatchIterator_next_rewind(it1, first, second, k)
             ELSE HashMatchIterator_next_rewind([it EXCEPT !.j = @ + 1, !.i = 0],
                                                first, second, k)

\* HashMatchIterator::next: the iterator after the call, the match returned
\* (ret = "Some") or not (ret = "None"), or a panic.
RECURSIVE HashMatchIterator_next(_, _, _, _)
HashMatchIterator_next(it, first, second, k) ==
    IF ~(it.j < it.second_len)
    THEN [it |-> it, ret |-> "None", m |-> Match(0, 0, 0)]
    ELSE LET v == Unpack(second, it.j, k)
         IN  IF v = <<>>
             THEN [it |-> [it EXCEPT !.panic = TRUE], ret |-> "Panic", m |-> Match(0, 0, 0)]
             ELSE IF v \in DOMAIN it.map /\ it.i < Len(it.map[v])
             THEN LET first_pos == At(it.map[v], it.i)
                      delta == first_pos - it.j
                      it1 == [it EXCEPT !.i = @ + 1]
                  IN  IF ~HashSuppressed(it.matched, delta, it.j)
                      THEN LET idx == match_length_loop(first, second, first_pos, it.j, 0)
                           IN  [it |-> [it1 EXCEPT !.matched = Put(@, delta, it.j + idx)],
                                ret |-> "Some",
                                m |-> Match(first_pos, it.j, idx)]
                      ELSE HashMatchIterator_next(it1, first, second, k)
             ELSE HashMatchIterator_next([it EXCEPT !.j = @ + 1, !.i = 0], first, second, k)

\* A variant of reset that keeps the diagonal map.
HashMatchIterator_reset_keep(it) == [it EXCEPT !.i = 0, !.j = 0]

\* HashMatchIterator::reset.
HashMatchIterator_reset(it) == [it EXCEPT !.i = 0, !.j = 0, !.matched = EmptyMap]

(***************************************************************************)
(* The suffix tree of treematch.rs                                         *)
(*                                                                         *)
(* SuffixTree::nodes is a function from node indices 0..n-1 to nodes; the  *)
(* 257-slot array Node::edges is the finite map of its occupied slots.     *)
(***************************************************************************)

\* Node::new
Node(start, end) ==
    [start |-> start, end |-> end, edges |-> EmptyMap, suffix_link |-> NONE]

\* Node::edge_length
edge_length(node) == node.end - node.start

\* nodes[n].edges[slot], for a slot below 257.
Edge(node, slot) == IF slot \in DOMAIN node.edges THEN node.edges[slot] ELSE NONE

\* Vec::push on the node arena; the new node has index Cardinality(DOMAIN nodes).
Push(nodes, node) ==
    LET n == Cardinality(DOMAIN nodes)
    IN  [x \in 0..n |-> IF x = n THEN node ELSE nodes[x]]

NumNodes(nodes) == Cardinality(DOMAIN nodes)

SetEdge(nodes, n, slot, child) == [nodes EXCEPT ![n].edges = Put(@, slot, child)]

SetLink(nodes, n, target) == [nodes EXCEPT ![n].suffix_link = target]

\* The state of extend_tree: the arena and the local variables; panic is
\* set by an index out of range.
BuildState(nodes, last_new_node, active_node, active_length, active_edge, remaining_suffix) ==
    [nodes |-> nodes,
     last_new_node |-> last_new_node,
     active_node |-> active_node,
     active_length |-> active_length,
     active_edge |-> active_edge,
     remaining_suffix |-> remaining_suffix,
     panic |-> FALSE]

BuildPanic(st) == [st EXCEPT !.panic = TRUE]

\* treematch.rs:126-136: after an extension, move the active point to the
\* next shorter suffix.
NextSuffix(st, data, i) ==
    LET rs == st.remaining_suffix - 1
        s1 == [st EXCEPT !.remaining_suffix = rs]
    IN  IF s1.active_node = 0 /\ s1.active_length > 0
        THEN IF i - rs + 1 >= Len(data)
             THEN BuildPanic(s1)
             ELSE [s1 EXCEPT !.active_length = @ - 1,
                             !.active_edge = At(data, i - rs + 1)]
        ELSE IF s1.active_node # 0
        THEN [s1 EXCEPT !.active_node =
                 IF s1.nodes[s1.active_node].suffix_link # NONE
                 THEN s1.nodes[s1.active_node].suffix_link ELSE 0]
        ELSE s1

\* treematch.rs:97-111: split the edge to next_node at the active point and
\* hang a new leaf for position i under the split node.
SplitEdge(st, data, i, next_node) ==
    LET start == st.nodes[next_node].start
        split_pos == start + st.active_length
        n1 == Push(st.nodes, Node(start, split_pos))
        split == NumNodes(n1) - 1
        n2 == [n1 EXCEPT ![next_node].start = split_pos]
        n3 == SetEdge(n2, st.active_node, At(data, start), split)
        n4 == SetEdge(n3, split, At(data, split_pos), next_node)
        n5 == Push(n4, Node(i, Len(data)))
        leaf == NumNodes(n5) - 1
        n6 == SetEdge(n5, split, At(data, i), leaf)
        n7 == IF st.last_new_node # NONE THEN SetLink(n6, st.last_new_node, split) ELSE n6
    IN  [st EXCEPT !.nodes = n7, !.last_new_node = split]

\* treematch.rs:116-123 (rule 2): a new leaf under the active node.
NewLeaf(st, data, i) ==
    LET n1 == Push(st.nodes, Node(i, Len(data)))
        leaf == NumNodes(n1) - 1
        n2 == SetEdge(n1, st.active_node, st.active_edge, leaf)
    IN  IF st.last_new_node # NONE
        THEN [st EXCEPT !.nodes = SetLink(n2, st.last_new_node, st.active_node),
                        !.last_new_node = NONE]
        ELSE [st EXCEPT !.nodes = n2]

\* treematch.rs:70-137: the `while remaining_suffix > 0` loop of phase i.
RECURSIVE extend_phase(_, _, _)
extend_phase(st, data, i) ==
    IF st.panic \/ ~(st.remaining_suffix > 0) THEN st
    ELSE LET s1 == IF st.active_length = 0
                   THEN [st EXCEPT !.active_edge = At(data, i)] ELSE st
             next_node == Edge(s1.nodes[s1.active_node], s1.active_edge)
         IN  IF s1.active_edge >= NumSlots THEN BuildPanic(s1)
             ELSE IF next_node # NONE
             THEN IF s1.active_length >= edge_length(s1.nodes[next_node])
                  THEN \* walk down
                       IF s1.nodes[next_node].end >= Len(data) THEN BuildPanic(s1)
                       ELSE extend_phase(
                              [s1 EXCEPT !.active_node = next_node,
                                         !.active_edge = At(data, s1.nodes[next_node].end),
                                         !.active_length = @ - edge_length(s1.nodes[next_node])],
                              data, i)
                  ELSE IF At(data, s1.nodes[next_node].start + s1.active_length) = At(data, i)
                  THEN \* rule 3: the phase ends
                       LET s2 == IF s1.last_new_node # NONE /\ s1.active_node > 0
                                 THEN [s1 EXCEPT !.nodes = SetLink(@, s1.last_new_node, s1.active_node),
                                                 !.last_new_node = NONE]
                                 ELSE s1
                       IN  [s2 EXCEPT !.active_length = @ + 1]
                  ELSE extend_phase(NextSuffix(SplitEdge(s1, data, i, next_node), data, i), data, i)
             ELSE extend_phase(NextSuffix(NewLeaf(s1, data, i), data, i), data, i)

\* treematch.rs:67-138: the phases 0 .. data.len()-1.
RECURSIVE extend_phases(_, _, _)
extend_phases(st, data, i) ==
    IF st.panic \/ i >= Len(data) THEN st
    ELSE extend_phases(
           extend_phase([st EXCEPT !.last_new_node = NONE,
                                   !.remaining_suffix = @ + 1], data, i),
           data, i + 1)

\* treematch.rs:196-211: the move to the next shorter suffix in the final
\* phase.
NextSuffixEnd(st, data) ==
    LET rs == st.remaining_suffix - 1
        s1 == [st EXCEPT !.remaining_suffix = rs]
    IN  IF s1.active_node = 0 /\ s1.active_length > 0
        THEN IF rs < 2
             THEN [s1 EXCEPT !.active_length = @ - 1, !.active_edge = EndSlot]
             ELSE IF Len(data) - rs + 1 >= Len(data) \/ Len(data) - rs + 1 < 0
             THEN BuildPanic(s1)
             ELSE [s1 EXCEPT !.active_length = @ - 1,
                             !.active_edge = At(data, Len(data) - rs + 1)]
        ELSE IF s1.active_node # 0
        THEN [s1 EXCEPT !.active_node =
                 IF s1.nodes[s1.active_node].suffix_link # NONE
                 THEN s1.nodes[s1.active_node].suffix_link ELSE 0]
        ELSE s1

\* treematch.rs:167-181: the split of the final phase, with the end leaf in
\* slot 256.
SplitEdgeEnd(st, data, next_node) ==
    LET start == st.nodes[next_node].start
        split_pos == start + st.active_length
        n1 == Push(st.nodes, Node(start, split_pos))
        split == NumNodes(n1) - 1
        n2 == [n1 EXCEPT ![next_node].start = split_pos]
        n3 == SetEdge(n2, st.active_node, At(data, start), split)
        n4 == SetEdge(n3, split, At(data, split_pos), next_node)
        n5 == Push(n4, Node(Len(data), Len(data)))
        leaf == NumNodes(n5) - 1
        n6 == SetEdge(n5, split, EndSlot, leaf)
        n7 == IF st.last_new_node # NONE THEN SetLink(n6, st.last_new_node, split) ELSE n6
    IN  [st EXCEPT !.nodes = n7, !.last_new_node = split]

\* treematch.rs:186-193: the end leaf under the active node.
NewLeafEnd(st, data) ==
    LET n1 == Push(st.nodes, Node(Len(data), Len(data)))
        leaf == NumNodes(n1) - 1
        n2 == SetEdge(n1, st.active_node, st.active_edge, leaf)
    IN  IF st.last_new_node # NONE
        THEN [st EXCEPT !.nodes = SetLink(n2, st.last_new_node, st.active_node),
                        !.last_new_node = NONE]
        ELSE [st EXCEPT !.nodes = n2]

\* treematch.rs:141-212: the final phase, for the end character 256.
RECURSIVE extend_end(_, _)
extend_end(st, data) ==
    IF st.panic \/ ~(st.remaining_suffix > 0) THEN st
    ELSE LET s1 == IF st.active_length = 0
                   THEN [st EXCEPT !.active_edge = EndSlot] ELSE st
             next_node == Edge(s1.nodes[s1.active_node], s1.active_edge)
         IN  IF s1.active_edge >= NumSlots THEN BuildPanic(s1)
             ELSE IF next_node # NONE
             THEN IF s1.active_length >= edge_length(s1.nodes[next_node])
                  THEN \* walk down
                       extend_end(
                         [s1 EXCEPT !.active_edge = @ + edge_length(s1.nodes[next_node]),
                                    !.active_length = @ - edge_length(s1.nodes[next_node]),
                                    !.active_node = next_node],
                         data)
                  ELSE IF s1.nodes[next_node].start + s1.active_length = Len(data)
                  THEN LET s2 == IF s1.last_new_node # NONE /\ s1.active_node > 0
                                 THEN [s1 EXCEPT !.nodes = SetLink(@, s1.last_new_node, s1.active_node),
                                                 !.last_new_node = NONE]
                                 ELSE s1
                       IN  [s2 EXCEPT !.active_length = @ + 1]
                  ELSE extend_end(NextSuffixEnd(SplitEdgeEnd(s1, data, next_node), data), data)
             ELSE extend_end(NextSuffixEnd(NewLeafEnd(s1, data), data), data)

\* treematch.rs:62-66: the locals of extend_tree before the first phase;
\* data[0] is out of range for empty data.
extend_tree_locals(nodes, data) ==
    IF Len(data) = 0
    THEN BuildPanic(BuildState(nodes, NONE, 0, 0, 0, 0))
    ELSE BuildState(nodes, NONE, 0, 0, At(data, 0), 0)

\* SuffixTree::extend_tree on the arena holding the root alone.
extend_tree(nodes, data) ==
    LET st0 == extend_tree_locals(nodes, data)
    IN  IF st0.panic THEN st0
        ELSE LET st == extend_phases(st0, data, 0)
             IN  IF st.panic THEN st
                 ELSE extend_end([st EXCEPT !.remaining_suffix = @ + 1], data)

\* SuffixTree::new, lines 50-54: the arena holding the root alone.
RootArena == [x \in {0} |-> Node(0, 0)]

\* SuffixTree::new
SuffixTree_new(data) == extend_tree(RootArena, data)

(***************************************************************************)
(* TreeMatch                                                               *)
(***************************************************************************)

\* TreeMatchIterator::new.  backtrace is the stack of (node, next slot)
\* pairs.
TreeMatchIterator_new(first, second, minimal_length) ==
    LET built == SuffixTree_new(first)
    IN  [panic |-> built.panic,
         tree |-> built.nodes,
         minimal_length |-> minimal_length,
         i |-> 0,
         backtrace |-> <<>>,
         match_length |-> 0,
         depth |-> 0,
         matched |-> EmptyMap]

\* A variant of reset that keeps the diagonal map.
TreeMatchIterator_reset_keep(it) == [it EXCEPT !.i = 0, !.backtrace = <<>>]

\* TreeMatchIterator::reset.
TreeMatchIterator_reset(it) ==
    [it EXCEPT !.i = 0, !.backtrace = <<>>, !.matched = EmptyMap]

\* treematch.rs:310-319 and 341-350: follow the edge to node next byte by
\* byte while second agrees; the new match_length.
RECURSIVE match_edge(_, _, _, _, _, _)
match_edge(it, first, second, next, j, ml) ==
    IF j >= edge_length(it.tree[next]) THEN ml
    ELSE LET first_idx == it.tree[next].start + j
             second_idx == it.i + it.depth + j
         IN  IF /\ second_idx < Len(second)
                /\ At(first, first_idx) = At(second, second_idx)
             THEN match_edge(it, first, second, next, j + 1, ml + 1)
             ELSE ml

\* treematch.rs:304-326: the dive from node cur; the iterator with the
\* match_length and depth reached, and the node it stopped on.
RECURSIVE dive(_, _, _, _)
dive(it, first, second, cur) ==
    IF ~(it.match_length = it.depth /\ it.match_length < it.minimal_length)
    THEN [it |-> it, cur |-> cur]
    ELSE LET second_idx == it.i + it.depth
         IN  IF second_idx >= Len(second) THEN [it |-> it, cur |-> cur]
             ELSE LET next == Edge(it.tree[cur], At(second, second_idx))
                  IN  IF next # NONE
                      THEN dive([it EXCEPT
                                   !.match_length = match_edge(it, first, second, next, 0, it.match_length),
                                   !.depth = @ + edge_length(it.tree[next])],
                                first, second, next)
                      ELSE [it |-> it, cur |-> cur]

\* The first occupied slot of node at or after idx, or 257 (treematch.rs:337).
NextSlot(node, idx) ==
    LET S == {e \in DOMAIN node.edges : e >= idx /\ e < NumSlots}
    IN  IF S = {} THEN NumSlots ELSE CHOOSE e \in S : \A f \in S : e <= f

SetTop(backtrace, idx) ==
    [backtrace EXCEPT ![Len(backtrace)] = <<backtrace[Len(backtrace)][1], idx>>]

\* A variant of the test that is off by one.
TreeSuppressed_off(matched, delta, second_pos) ==
    delta \in DOMAIN matched /\ matched[delta] > second_pos + 1

\* The test of treematch.rs:370: the diagonal reaches beyond second_pos.
TreeSuppressed(matched, delta, second_pos) ==
    delta \in DOMAIN matched /\ matched[delta] > second_pos

\* usize subtraction under the build's overflow policy; -1 is the panic.
CheckedSub(a, b, checks) ==
    IF a >= b THEN a - b ELSE IF checks THEN -1 ELSE WrappingSub(a, b)

\* TreeMatchIterator::next (treematch.rs:296-390).  harvest is the loop
\* `while self.backtrace.len() > 0`.
RECURSIVE TreeMatchIterator_next(_, _, _, _)
RECURSIVE harvest(_, _, _, _)
harvest(it, first, second, checks) ==
    IF Len(it.backtrace) = 0
    THEN TreeMatchIterator_next([it EXCEPT !.i = @ + 1], first, second, checks)
    ELSE LET cur == it.backtrace[Len(it.backtrace)][1]
             idx0 == it.backtrace[Len(it.backtrace)][2]
             idx == NextSlot(it.tree[cur], idx0)
             down == idx < NumSlots
             next == Edge(it.tree[cur], idx)
             it1 == IF down
                    THEN [it EXCEPT
                            !.match_length =
                                IF it.match_length = it.depth
                                THEN match_edge(it, first, second, next, 0, it.match_length)
                                ELSE @,
                            !.depth = @ + edge_length(it.tree[next]),
                            !.backtrace = Append(SetTop(@, idx + 1), <<next, 0>>)]
                    ELSE it
             top == it1.backtrace[Len(it1.backtrace)]
         IN  IF cur = top[1]
             THEN IF top[2] = 0
                  THEN \* a leaf: handle the match
                       LET it2 == [it1 EXCEPT !.backtrace = SetTop(@, idx + 1)]
                           first_pos == CheckedSub(it2.tree[cur].end, it2.depth, checks)
                           m == Match(first_pos, it2.i, it2.match_length)
                           delta == m.first_pos - m.second_pos
                       IN  IF first_pos < 0
                           THEN [it |-> [it2 EXCEPT !.panic = TRUE], ret |-> "Panic", m |-> Match(0, 0, 0)]
                           ELSE IF ~TreeSuppressed(it2.matched, delta, m.second_pos)
                           THEN [it |-> [it2 EXCEPT !.matched = Put(@, delta, m.second_pos + m.length)],
                                 ret |-> "Some",
                                 m |-> m]
                           ELSE harvest(it2, first, second, checks)
                  ELSE \* backtrack
                       LET depth == CheckedSub(it1.depth, edge_length(it1.tree[cur]), checks)
                       IN  IF depth < 0
                           THEN [it |-> [it1 EXCEPT !.panic = TRUE], ret |-> "Panic", m |-> Match(0, 0, 0)]
                           ELSE harvest([it1 EXCEPT
                                           !.depth = depth,
                                           !.match_length = IF depth < @ THEN depth ELSE @,
                                           !.backtrace = SubSeq(@, 1, Len(@) - 1)],
                                        first, second, checks)
             ELSE harvest(it1, first, second, checks)

TreeMatchIterator_next(it, first, second, checks) ==
    IF ~(it.i < Len(second))
    THEN [it |-> it, ret |-> "None", m |-> Match(0, 0, 0)]
    ELSE IF Len(it.backtrace) = 0
    THEN LET d == dive([it EXCEPT !.match_length = 0, !.depth = 0], first, second, 0)
         IN  IF d.it.match_length < d.it.minimal_length
             THEN TreeMatchIterator_next([d.it EXCEPT !.i = @ + 1], first, second, checks)
             ELSE harvest([d.it EXCEPT !.backtrace = Append(@, <<d.cur, 0>>)], first, second, checks)
    ELSE harvest(it, first, second, checks)

(***************************************************************************)
(* Full drains: `for m in match_iter` collects the matches up to the first *)
(* None (or up to a panic).                                                *)
(***************************************************************************)
RECURSIVE HashDrain(_, _, _, _, _)
HashDrain(it, f, s, k, acc) ==
    IF it.panic THEN acc
    ELSE LET r == HashMatchIterator_next(it, f, s, k)
         IN  IF r.ret = "Some" THEN HashDrain(r.it, f, s, k, Append(acc, r.m)) ELSE acc

RECURSIVE TreeDrain(_, _, _, _, _)
TreeDrain(it, f, s, checks, acc) ==
    IF it.panic THEN acc
    ELSE LET r == TreeMatchIterator_next(it, f, s, checks)
         IN  IF r.ret = "Some" THEN TreeDrain(r.it, f, s, checks, Append(acc, r.m)) ELSE acc

\* The sequence a freshly constructed enumerator yields.
FreshDrain(a, f, s, p, checks) ==
    IF a = "HashMatch"
    THEN HashDrain(HashMatchIterator_new(f, s, p, checks), f, s, p, <<>>)
    ELSE TreeDrain(TreeMatchIterator_new(f, s, p), f, s, checks, <<>>)

(***************************************************************************)
(* lib.rs: MatchIterator and the functions built on it.                    *)
(***************************************************************************)

\* MatchIterator::new (lib.rs:137-151, with build_map of lib.rs:59-71): the
\* same statements as HashMatchIterator::new.
MatchIterator_new(first, second, k, checks) == HashMatchIterator_new(first, second, k, checks)

\* A variant of the test that suppresses nothing.
MatchSuppressed_off(matched, delta, j) == FALSE

\* The test of lib.rs:173: the diagonal reaches beyond position j.
MatchSuppressed(matched, delta, j) ==
    delta \in DOMAIN matched /\ matched[delta] > j

\* MatchIterator::next (lib.rs:163-193).
RECURSIVE MatchIterator_next(_, _, _, _)
MatchIterator_next(it, first, second, k) ==
    IF ~(it.j < it.second_len)
    THEN [it |-> it, ret |-> "None", m |-> Match(0, 0, 0)]
    ELSE LET v == Unpack(second, it.j, k)
         IN  IF v = <<>>
             THEN [it |-> [it EXCEPT !.panic = TRUE], ret |-> "Panic", m |-> Match(0, 0, 0)]
             ELSE IF v \in DOMAIN it.map /\ it.i < Len(it.map[v])
             THEN LET first_pos == At(it.map[v], it.i)
                      delta == first_pos - it.j
                      it1 == [it EXCEPT !.i = @ + 1]
                  IN  IF ~MatchSuppressed(it.matched, delta, it.j)
                      THEN LET idx == match_length_loop(first, second, first_pos, it.j, 0)
                           IN  [it |-> [it1 EXCEPT !.matched = Put(@, delta, it.j + idx)],
                                ret |-> "Some",
                                m |-> Match(first_pos, it.j, idx)]
                      ELSE MatchIterator_next(it1, first, second, k)
             ELSE MatchIterator_next([it EXCEPT !.j = @ + 1, !.i = 0], first, second, k)

\* A variant of the comparison that also replaces on equal length.
longest_step_ge(longest, m) == IF m.length >= longest.length THEN m ELSE longest

\* longest_common_substring, the body of its loop (lib.rs:201-203).
longest_step(longest, m) == IF m.length > longest.length THEN m ELSE longest

\* Variants of the search for the insertion position: one that always
\* inserts in front, one that also skips the entries of equal length.
insert_pos_front(top, m, insert_pos) == 0

RECURSIVE insert_pos_ge(_, _, _)
insert_pos_ge(top, m, insert_pos) ==
    IF insert_pos < Len(top) /\ top[insert_pos + 1].length >= m.length
    THEN insert_pos_ge(top, m, insert_pos + 1)
    ELSE insert_pos

\* longest_common_substrings, the search for the insertion position
\* (lib.rs:219-222).
RECURSIVE insert_pos_loop(_, _, _)
insert_pos_loop(top, m, insert_pos) ==
    IF insert_pos < Len(top) /\ top[insert_pos + 1].length > m.length
    THEN insert_pos_loop(top, m, insert_pos + 1)
    ELSE insert_pos

\* Vec::insert(pos, m) and Vec::truncate(n).
Insert(vec, pos, m) == SubSeq(vec, 1, pos) \o <<m>> \o SubSeq(vec, pos + 1, Len(vec))
Truncate(vec, n) == IF n < Len(vec) THEN SubSeq(vec, 1, n) ELSE vec

\* longest_common_substrings, the body of its loop (lib.rs:217-228) on the
\* locals (top, threshold); panic is top.last().unwrap() on an empty top.
top_step(top, threshold, m, number) ==
    IF m.length > threshold
    THEN LET top1 == Insert(top, insert_pos_loop(top, m, 0), m)
         IN  IF Len(top1) > number
             THEN LET top2 == Truncate(top1, number)
                  IN  IF Len(top2) = 0
                      THEN [top |-> top2, threshold |-> threshold, panic |-> TRUE]
                      ELSE [top |-> top2, threshold |-> top2[Len(top2)].length, panic |-> FALSE]
             ELSE [top |-> top1, threshold |-> threshold, panic |-> FALSE]
    ELSE [top |-> top, threshold |-> threshold, panic |-> FALSE]

\* m with its first overlap bytes cut off (lib.rs:259-261 and 268-270).
CutLeft(m, overlap) ==
    Match(m.first_pos + overlap, m.second_pos + overlap, m.length - overlap)

\* A variant that keeps the last patch and appends m behind it.
SetLast_append(patches, m) == Append(patches, m)

\* patches[last] = m (lib.rs:255 and 262).
SetLast(patches, m) == [patches EXCEPT ![Len(patches)] = m]

\* A variant of the loop body that appends an overlapping match as it is.
patch_step_no_cut(patches, m) ==
    LET last == patches[Len(patches)]
    IN  IF second_end(m) > second_end(last)
        THEN IF m.second_pos = last.second_pos
             THEN SetLast(patches, m)
             ELSE IF m.second_pos < last.second_pos
             THEN SetLast(patches, CutLeft(m, last.second_pos - m.second_pos))
             ELSE Append(patches, m)
        ELSE patches

\* patch_set, the body of its loop (lib.rs:249-277); patches is not empty.
patch_step(patches, m) ==
    LET last == patches[Len(patches)]
    IN  IF second_end(m) > second_end(last)
        THEN IF m.second_pos = last.second_pos
             THEN SetLast(patches, m)
             ELSE IF m.second_pos < last.second_pos
             THEN SetLast(patches, CutLeft(m, last.second_pos - m.second_pos))
             ELSE IF m.second_pos > last.second_pos /\ m.second_pos < second_end(last)
             THEN Append(patches, CutLeft(m, second_end(last) - m.second_pos))
             ELSE Append(patches, m)
        ELSE patches

\* patch_set (lib.rs:240-280) run to its return.
RECURSIVE patch_set_loop(_, _, _, _, _)
patch_set_loop(it, f, s, k, patches) ==
    LET r == MatchIterator_next(it, f, s, k)
    IN  IF r.ret = "Some" THEN patch_set_loop(r.it, f, s, k, patch_step(patches, r.m))
        ELSE patches

patch_set(f, s, k, checks) ==
    LET it == MatchIterator_new(f, s, k, checks)
        r == MatchIterator_next(it, f, s, k)
    IN  IF it.panic \/ r.ret # "Some" THEN <<>>
        ELSE patch_set_loop(r.it, f, s, k, <<r.m>>)

(***************************************************************************)
(* hashmatch.rs: unique_strings.  A range is the pair <<lo, hi>>; current  *)
(* is <<>> for None.                                                       *)
(***************************************************************************)

\* hashmatch.rs:166-169: the key table of first and the number of windows
\* of second.
unique_setup(f, s, k, checks) ==
    LET size == WindowCount(Len(f), k, checks)
        second_len == WindowCount(Len(s), k, checks)
        bad == size < 0 \/ size > IsizeMax \/ second_len < 0
    IN  [panic |-> bad,
         map |-> IF bad THEN EmptyMap ELSE build_map(f, k, size),
         second_len |-> IF bad THEN 0 ELSE second_len]

\* A variant that does not move the start of a range past the window
\* before it.
unique_terminate_no_alias(uniques, current, k) ==
    IF current = <<>> THEN uniques
    ELSE IF current[1] < current[2] THEN Append(uniques, current) ELSE uniques

\* hashmatch.rs:179-188: a window found in first ends the current range.
unique_terminate(uniques, current, k) ==
    IF current = <<>> THEN uniques
    ELSE LET lo == IF current[1] > 0 THEN current[1] + (k - 1) ELSE current[1]
         IN  IF lo < current[2] THEN Append(uniques, <<lo, current[2]>>) ELSE uniques

\* A variant that does not extend the last range to the end of second.
unique_finish_no_alias(uniques, current, k) ==
    IF current = <<>> THEN uniques
    ELSE LET lo == IF current[1] > 0 THEN current[1] + (k - 1) ELSE current[1]
         IN  IF lo < current[2] THEN Append(uniques, <<lo, current[2]>>) ELSE uniques

\* hashmatch.rs:199-210: the range still open after the last window.
unique_finish(uniques, current, k) ==
    IF current = <<>> THEN uniques
    ELSE LET lo == IF current[1] > 0 THEN current[1] + (k - 1) ELSE current[1]
             hi == current[2] + (k - 1)
         IN  IF lo < hi THEN Append(uniques, <<lo, hi>>) ELSE uniques

\* hashmatch.rs:192-195: start or extend the current range at window i.
unique_extend(current, i) ==
    IF current = <<>> THEN <<i, i + 1>> ELSE <<current[1], i + 1>>

(***************************************************************************)
(* The state machine: one enumerator, its next() and reset() calls.        *)
(***************************************************************************)
VARIABLES
    first,            \* the first byte slice
    second,           \* the second byte slice
    algo,             \* "HashMatch" or "TreeMatch"
    param,            \* size_of::<T>() of the key, or minimal_length
    overflow_checks,  \* whether the build panics on arithmetic overflow
    iter,             \* the enumerator
    out,              \* the matches returned since construction or the last reset
    last_ret,         \* the result of the last next(): "" (none yet), "Some", "None"
    fresh,            \* the matches a full drain of the enumerator as constructed returns
    reset_from,       \* where the last reset() was called: "never", "start" (before any
                      \* next()), "midway" (after a match) or "exhausted" (after None)
    build,            \* SuffixTree::new(first) on its own: the arena and the locals
                      \* of extend_tree
    phase,            \* the phase extend_tree runs next: i < |first|, |first| for the
                      \* end character, |first| + 1 once it has returned
    fn,               \* the function of lib.rs / hashmatch.rs that is running
    number,           \* the argument number of longest_common_substrings
    match_iter,       \* the MatchIterator of the running function
    status,           \* "start", "loop", "returned" or "panicked"
    seen,             \* the matches match_iter has handed to the function so far
    longest,          \* longest_common_substring: longest
    top,              \* longest_common_substrings: top
    threshold,        \* longest_common_substrings: threshold
    dropped,          \* longest_common_substrings: the matches truncate() has removed
                      \* from top so far
    patches,          \* patch_set: patches
    uniques,          \* unique_strings: uniques
    current,          \* unique_strings: current (<<>> is None)
    pos               \* unique_strings: the loop variable i

inputVars == <<first, second, param, overflow_checks>>
enumVars == <<algo, iter, out, last_ret, fresh, reset_from>>
treeVars == <<build, phase>>
reducerVars == <<fn, number, match_iter, status, seen, longest, top, threshold, dropped,
                 patches, uniques, current, pos>>

vars == <<first, second, algo, param, overflow_checks, iter, out, last_ret, fresh, reset_from,
          build, phase, fn, number, match_iter, status, seen, longest, top, threshold,
          dropped, patches, uniques, current, pos>>

\* The enumerator as constructed over the inputs.
NewIterator(a, f, s, p, checks) ==
    IF a = "HashMatch"
    THEN HashMatchIterator_new(f, s, p, checks)
    ELSE TreeMatchIterator_new(f, s, p)

\* No enumerator is under observation.
EnumIdle ==
    /\ algo = "none"
    /\ iter = [panic |-> FALSE]
    /\ out = <<>>
    /\ last_ret = ""
    /\ fresh = <<>>
    /\ reset_from = "never"

\* No suffix tree is being built on its own.
TreeIdle ==
    /\ build = BuildState(RootArena, NONE, 0, 0, 0, 0)
    /\ phase = 0

\* No function of lib.rs is running.
ReducersIdle ==
    /\ fn = "none"
    /\ number = 0
    /\ match_iter = [panic |-> FALSE]
    /\ status = "returned"
    /\ seen = <<>>
    /\ longest = Match(0, 0, 0)
    /\ top = <<>>
    /\ threshold = 0
    /\ dropped = {}
    /\ patches = <<>>
    /\ uniques = <<>>
    /\ current = <<>>
    /\ pos = 0

Init ==
    /\ algo \in {"HashMatch", "TreeMatch"}
    /\ param \in IF algo = "HashMatch" THEN SupportedKeys \cap (1..MaxKey) ELSE 1..MaxKey
    /\ first \in SeqsUpTo(Alphabet, IF algo = "HashMatch" THEN MaxLenH ELSE MaxLenA)
    /\ second \in SeqsUpTo(Alphabet, IF algo = "HashMatch" THEN MaxLenH ELSE MaxLenB)
    /\ overflow_checks \in BOOLEAN
    /\ iter = NewIterator(algo, first, second, param, overflow_checks)
    /\ out = <<>>
    /\ last_ret = ""
    /\ fresh = FreshDrain(algo, first, second, param, overflow_checks)
    /\ reset_from = "never"
    /\ TreeIdle
    /\ ReducersIdle

\* The result of a next() call becomes the state of the machine.
Returned(r) ==
    /\ iter' = r.it
    /\ last_ret' = IF r.ret = "Panic" THEN last_ret ELSE r.ret
    /\ out' = IF r.ret = "Some" THEN Append(out, r.m) ELSE out
    /\ UNCHANGED <<first, second, algo, param, overflow_checks, fresh, reset_from>>
    /\ UNCHANGED <<treeVars, reducerVars>>

\* The point of the enumeration a reset() is called at.
ResetPoint ==
    IF last_ret = "" THEN "start" ELSE IF last_ret = "Some" THEN "midway" ELSE "exhausted"

HashNext ==
    /\ algo = "HashMatch"
    /\ ~iter.panic
    /\ Returned(HashMatchIterator_next(iter, first, second, param))

HashReset ==
    /\ algo = "HashMatch"
    /\ ~iter.panic
    /\ iter' = HashMatchIterator_reset(iter)
    /\ out' = <<>>
    /\ last_ret' = ""
    /\ reset_from' = ResetPoint
    /\ UNCHANGED <<first, second, algo, param, overflow_checks, fresh>>
    /\ UNCHANGED <<treeVars, reducerVars>>

TreeNext ==
    /\ algo = "TreeMatch"
    /\ ~iter.panic
    /\ Returned(TreeMatchIterator_next(iter, first, second, overflow_checks))

TreeReset ==
    /\ algo = "TreeMatch"
    /\ ~iter.panic
    /\ iter' = TreeMatchIterator_reset(iter)
    /\ out' = <<>>
    /\ last_ret' = ""
    /\ reset_from' = ResetPoint
    /\ UNCHANGED <<first, second, algo, param, overflow_checks, fresh>>
    /\ UNCHANGED <<treeVars, reducerVars>>

Next == HashNext \/ HashReset \/ TreeNext \/ TreeReset

Spec == Init /\ [][Next]_vars

\* The enumerator has nothing more to give: next() has returned None, or a
\* call has panicked.
Stopped == iter.panic \/ last_ret = "None"

\* The caller keeps calling next() as long as it returns matches, as the
\* loop `for m in iter` does.  This is weak fairness of the next() calls,
\* WF_vars(HashNext \/ TreeNext), with Stopped written for the states where
\* a call is disabled or changes nothing.
FairSpec == Init /\ [][Next]_vars /\ ([]<>Stopped \/ []<><<HashNext \/ TreeNext>>_vars)

(***************************************************************************)
(* SuffixTree::new(first) phase by phase: one action for each iteration    *)
(* of the loop over the bytes of first, one for the end character.         *)
(***************************************************************************)
InitSuffixTree ==
    /\ first \in SeqsUpTo(TreeBytes, MaxLenT)
    /\ second = <<>>
    /\ param = 1
    /\ overflow_checks = TRUE
    /\ build = extend_tree_locals(RootArena, first)
    /\ phase = 0
    /\ EnumIdle
    /\ ReducersIdle

\* treematch.rs:67-138, the iteration i = phase.
ExtendPhase ==
    /\ ~build.panic
    /\ phase < Len(first)
    /\ build' = extend_phase([build EXCEPT !.last_new_node = NONE,
                                           !.remaining_suffix = @ + 1], first, phase)
    /\ phase' = phase + 1
    /\ UNCHANGED <<inputVars, enumVars, reducerVars>>

\* treematch.rs:140-212, the phase of the end character.
ExtendEnd ==
    /\ ~build.panic
    /\ phase = Len(first)
    /\ build' = extend_end([build EXCEPT !.remaining_suffix = @ + 1], first)
    /\ phase' = phase + 1
    /\ UNCHANGED <<inputVars, enumVars, reducerVars>>

NextSuffixTree == ExtendPhase \/ ExtendEnd

SpecSuffixTree == InitSuffixTree /\ [][NextSuffixTree]_vars

(***************************************************************************)
(* The functions of lib.rs over MatchIterator, and unique_strings: Init    *)
(* is the call with its locals set up, an action is one iteration of the   *)
(* function's loop.                                                        *)
(***************************************************************************)
Functions ==
    {"longest_common_substring", "longest_common_substrings", "patch_set", "unique_strings"}

\* The status a call starts in: the constructor of the iterator (or of the
\* key table) may have panicked.
StartStatus(f, panicked) ==
    IF panicked THEN "panicked" ELSE IF f = "patch_set" THEN "start" ELSE "loop"

InitReducers ==
    /\ fn \in Functions
    /\ param \in SupportedKeys \cap (1..MaxKey)
    /\ first \in SeqsUpTo(Alphabet, MaxLenRA)
    /\ second \in SeqsUpTo(Alphabet, MaxLenRB)
       \* the overflow policy of the build shows only when a slice is
       \* shorter than the key
    /\ overflow_checks \in IF Len(first) < param \/ Len(second) < param THEN BOOLEAN ELSE {TRUE}
    /\ number \in IF fn = "longest_common_substrings" THEN 0..MaxNumber ELSE {0}
    /\ match_iter = IF fn = "unique_strings" THEN [panic |-> FALSE]
                    ELSE MatchIterator_new(first, second, param, overflow_checks)
    /\ status = StartStatus(fn, IF fn = "unique_strings"
                                THEN unique_setup(first, second, param, overflow_checks).panic
                                ELSE match_iter.panic)
    /\ seen = <<>>
    /\ longest = Match(0, 0, 0)
    /\ top = <<>>
    /\ threshold = 0
    /\ dropped = {}
    /\ patches = <<>>
    /\ uniques = <<>>
    /\ current = <<>>
    /\ pos = 0
    /\ EnumIdle
    /\ TreeIdle

\* The next() call of the running function's loop.
Pulled == MatchIterator_next(match_iter, first, second, param)

\* What a next() call does to the iterator and to the run, whatever the
\* function does with the match.
AfterPull(r, panicked) ==
    /\ match_iter' = r.it
    /\ seen' = IF r.ret = "Some" THEN Append(seen, r.m) ELSE seen
    /\ status' = IF r.ret = "Panic" \/ panicked THEN "panicked"
                 ELSE IF r.ret = "None" THEN "returned" ELSE "loop"
    /\ UNCHANGED <<inputVars, enumVars, treeVars, fn, number>>

\* longest_common_substring (lib.rs:200-205): one iteration, or the return.
LongestNext ==
    /\ fn = "longest_common_substring" /\ status = "loop"
    /\ LET r == Pulled
       IN  /\ longest' = IF r.ret = "Some" THEN longest_step(longest, r.m) ELSE longest
           /\ AfterPull(r, FALSE)
    /\ UNCHANGED <<top, threshold, dropped, patches, uniques, current, pos>>

\* longest_common_substrings (lib.rs:216-231): one iteration, or the return.
TopNext ==
    /\ fn = "longest_common_substrings" /\ status = "loop"
    /\ LET r == Pulled
           t == IF r.ret = "Some" THEN top_step(top, threshold, r.m, number)
                ELSE [top |-> top, threshold |-> threshold, panic |-> FALSE]
           entered == IF r.ret = "Some" /\ r.m.length > threshold THEN {r.m} ELSE {}
       IN  /\ top' = t.top
           /\ threshold' = t.threshold
           /\ dropped' = dropped \cup ((Range(top) \cup entered) \ Range(t.top))
           /\ AfterPull(r, t.panic)
    /\ UNCHANGED <<longest, patches, uniques, current, pos>>

\* patch_set (lib.rs:244-246): the first match is always pushed; the loop
\* follows whatever next() returned.
PatchFirst ==
    /\ fn = "patch_set" /\ status = "start"
    /\ LET r == Pulled
       IN  /\ patches' = IF r.ret = "Some" THEN <<r.m>> ELSE patches
           /\ match_iter' = r.it
           /\ seen' = IF r.ret = "Some" THEN Append(seen, r.m) ELSE seen
           /\ status' = IF r.ret = "Panic" THEN "panicked" ELSE "loop"
    /\ UNCHANGED <<inputVars, enumVars, treeVars, fn, number>>
    /\ UNCHANGED <<longest, top, threshold, dropped, uniques, current, pos>>

\* patch_set (lib.rs:247-279): one iteration, or the return; patches.len() - 1
\* needs a first patch.
PatchNext ==
    /\ fn = "patch_set" /\ status = "loop"
    /\ LET r == Pulled
           empty == r.ret = "Some" /\ Len(patches) = 0
       IN  /\ patches' = IF r.ret = "Some" /\ ~empty THEN patch_step(patches, r.m) ELSE patches
           /\ AfterPull(r, empty)
    /\ UNCHANGED <<longest, top, threshold, dropped, uniques, current, pos>>

\* unique_strings (hashmatch.rs:174-197): the iteration i = pos.
UniqueNext ==
    /\ fn = "unique_strings" /\ status = "loop"
    /\ LET t == unique_setup(first, second, param, overflow_checks)
           v == Unpack(second, pos, param)
       IN  /\ pos < t.second_len
           /\ IF v = <<>>
              THEN status' = "panicked" /\ UNCHANGED <<uniques, current>>
              ELSE /\ status' = status
                   /\ IF v \in DOMAIN t.map
                      THEN /\ uniques' = unique_terminate(uniques, current, param)
                           /\ current' = <<>>
                      ELSE /\ uniques' = uniques
                           /\ current' = unique_extend(current, pos)
    /\ pos' = pos + 1
    /\ UNCHANGED <<inputVars, enumVars, treeVars, fn, number, match_iter, seen>>
    /\ UNCHANGED <<longest, top, threshold, dropped, patches>>

\* unique_strings (hashmatch.rs:199-212): after the loop.
UniqueReturn ==
    /\ fn = "unique_strings" /\ status = "loop"
    /\ pos >= unique_setup(first, second, param, overflow_checks).second_len
    /\ uniques' = unique_finish(uniques, current, param)
    /\ current' = <<>>
    /\ status' = "returned"
    /\ UNCHANGED <<inputVars, enumVars, treeVars, fn, number, match_iter, seen>>
    /\ UNCHANGED <<longest, top, threshold, dropped, patches, pos>>

NextReducers ==
    LongestNext \/ TopNext \/ PatchFirst \/ PatchNext \/ UniqueNext \/ UniqueReturn

SpecReducers == InitReducers /\ [][NextReducers]_vars

(***************************************************************************)
(* Properties of the enumerators.                                          *)
(***************************************************************************)
Returns == {out[n] : n \in 1..Len(out)}

\* first[p..p+len] == second[q..q+len], both ranges inside their slices.
CommonAt(p, q, len) ==
    /\ p >= 0 /\ q >= 0
    /\ p + len <= Len(first)
    /\ q + len <= Len(second)
    /\ SubSeq(first, p + 1, p + len) = SubSeq(second, q + 1, q + len)

LeftMaximal(m) ==
    \/ m.first_pos = 0
    \/ m.second_pos = 0
    \/ At(first, m.first_pos - 1) # At(second, m.second_pos - 1)

RightMaximal(m) ==
    \/ first_end(m) = Len(first)
    \/ second_end(m) = Len(second)
    \/ At(first, first_end(m)) # At(second, second_end(m))

\* The length of the longest common substring starting at (p, q).
RECURSIVE CommonLength(_, _, _)
CommonLength(p, q, len) ==
    IF CommonAt(p, q, len + 1) THEN CommonLength(p, q, len + 1) ELSE len

match_length_ref(p, q) == CommonLength(p, q, 0)

\* The number of times m was returned.
TimesReturned(m) == Cardinality({n \in 1..Len(out) : out[n] = m})

BagOfSeq(seq) ==
    [m \in {seq[n] : n \in 1..Len(seq)} |-> Cardinality({n \in 1..Len(seq) : seq[n] = m})]

IsPrefix(a, b) == Len(a) <= Len(b) /\ a = SubSeq(b, 1, Len(a))

Drained == last_ret = "None"

\* C1: every match (p, q, L) returned by HashMatch lies inside both slices,
\* spells the same bytes in first and second, and has L >= k.
C1_HashMatchCorrect ==
    algo = "HashMatch" =>
        \A m \in Returns :
            CommonAt(m.first_pos, m.second_pos, m.length) /\ m.length >= param

\* A HashMatch enumeration that returned a match longer than the key, found
\* away from the start of both slices.
C1_Witness ==
    /\ algo = "HashMatch" /\ param = 2
    /\ \E m \in Returns : m.length > param /\ m.first_pos > 0 /\ m.second_pos > 0

\* C2: for non-empty first and mml >= 1, every match (p, q, L) returned by
\* TreeMatch lies inside both slices, spells the same bytes in first and
\* second, and has L >= mml.
C2_TreeMatchCorrect ==
    (algo = "TreeMatch" /\ Len(first) > 0 /\ param >= 1) =>
        \A m \in Returns :
            CommonAt(m.first_pos, m.second_pos, m.length) /\ m.length >= param

\* The matches a full drain of the other enumerator yields on the same
\* inputs with the same threshold.
OtherDrain ==
    FreshDrain(IF algo = "HashMatch" THEN "TreeMatch" ELSE "HashMatch",
               first, second, param, overflow_checks)

\* C3: with L in HashMatch's supported set, a full drain of HashMatch(L) and
\* a full drain of TreeMatch(L) over the same slices return the same
\* multiset of matches.
C3_SameMultiset ==
    (/\ Drained
     /\ param \in SupportedKeys
     /\ Len(first) >= param /\ Len(second) >= param) =>
        BagOfSeq(out) = BagOfSeq(OtherDrain)

\* C4: a full drain of HashMatch returns exactly once every (p, q, L) with
\* L >= k that is a common substring and can be extended neither to the
\* left nor to the right.
C4_HashComplete ==
    (algo = "HashMatch" /\ Drained) =>
        \A p \in 0..(Len(first) - 1), q \in 0..(Len(second) - 1) :
            LET m == Match(p, q, match_length_ref(p, q))
            IN  (m.length >= param /\ LeftMaximal(m)) => TimesReturned(m) = 1

\* A drained HashMatch enumeration with two maximal matches on one diagonal
\* and a window the suppression test skipped.
C4_Witness ==
    /\ algo = "HashMatch" /\ Drained
    /\ \E m1, m2 \in Returns :
          /\ m1.first_pos - m1.second_pos = m2.first_pos - m2.second_pos
          /\ m1.second_pos < m2.second_pos
          /\ m1.length > param

\* C5: every match returned by HashMatch is left-maximal, and none is a
\* proper part of a longer common substring on its diagonal.
C5_HashLeftMaximal ==
    algo = "HashMatch" =>
        \A m \in Returns :
            /\ LeftMaximal(m)
            /\ ~\E d \in 0..m.second_pos, len \in 0..Len(second) :
                   /\ len > m.length
                   /\ m.second_pos - d + len >= second_end(m)
                   /\ m.first_pos - d >= 0
                   /\ CommonAt(m.first_pos - d, m.second_pos - d, len)

\* A HashMatch enumeration whose scan has passed a window inside a match
\* it returned before (the window that would give a sub-match).
C5_Witness ==
    /\ algo = "HashMatch"
    /\ \E m \in Returns :
          /\ m.length > param
          /\ iter.j > m.second_pos
          /\ m.first_pos > 0 /\ m.second_pos > 0

\* C6: every match returned by HashMatch is right-maximal.
C6_HashRightMaximal ==
    algo = "HashMatch" => \A m \in Returns : RightMaximal(m)

\* A HashMatch match that stops at a differing byte inside both slices, and
\* one that stops at the end of first.
C6_Witness ==
    /\ algo = "HashMatch"
    /\ \E m \in Returns :
          /\ first_end(m) < Len(first) /\ second_end(m) < Len(second)
          /\ m.length > param
    /\ \E m \in Returns : first_end(m) = Len(first) /\ second_end(m) < Len(second)

\* C7: every match returned by TreeMatch is right-maximal.
C7_TreeRightMaximal ==
    (algo = "TreeMatch" /\ Len(first) > 0) => \A m \in Returns : RightMaximal(m)

\* C8: in one enumeration, no two returned matches lie on the same diagonal
\* and overlap in second.
C8_DiagonalUnique ==
    \A a, b \in 1..Len(out) :
        (/\ a < b
         /\ out[a].first_pos - out[a].second_pos = out[b].first_pos - out[b].second_pos) =>
            \/ second_end(out[a]) <= out[b].second_pos
            \/ second_end(out[b]) <= out[a].second_pos

\* A drained TreeMatch enumeration that returned a match of two bytes or
\* more and went on to the positions of second inside it, where the rest
\* of the match is a candidate on the same diagonal.
C8_Witness ==
    /\ algo = "TreeMatch" /\ Drained
    /\ \E m \in Returns :
          /\ m.length >= 2
          /\ \E n \in Returns : n.second_pos > m.second_pos /\ n.second_pos < second_end(m)

\* C9: second_pos never decreases from one returned match to the next.
C9_SecondPosMonotone ==
    \A n \in 1..(Len(out) - 1) : out[n].second_pos <= out[n + 1].second_pos

\* An enumeration whose second_pos has grown and whose first_pos has
\* shrunk between two consecutive matches.
C9_Witness ==
    \E n \in 1..(Len(out) - 1) :
        /\ out[n].second_pos < out[n + 1].second_pos
        /\ out[n].first_pos > out[n + 1].first_pos

\* C10: after reset(), whenever it is called, the enumerator returns the
\* sequence a freshly constructed enumerator returns: what it has returned
\* since is a prefix of that sequence, and all of it once it returns None.
C10_ResetRestarts ==
    reset_from # "never" =>
        /\ IsPrefix(out, fresh)
        /\ Drained => out = fresh

\* A TreeMatch enumerator reset in the middle of a traversal, with matches
\* of the first pass still to come, and drained again.
C10_Witness ==
    /\ algo = "TreeMatch" /\ reset_from = "midway"
    /\ Drained /\ Len(out) >= 3
    /\ \E a, b \in 1..Len(out) : a < b /\ out[a].second_pos = out[b].second_pos

\* C11: for HashMatch with |first| < k or |second| < k, construction
\* succeeds (no overflow of len - k + 1, no panic) and the enumerator
\* returns None at once.
C11_HashInputTooSmall ==
    (algo = "HashMatch" /\ (Len(first) < param \/ Len(second) < param)) =>
        /\ ~iter.panic
        /\ out = <<>>
        /\ last_ret \in {"", "None"}

\* C12: for TreeMatch with an empty first, construction (the suffix tree
\* included) succeeds and the enumerator returns None at once, for every
\* second.
C12_TreeEmptyFirst ==
    (algo = "TreeMatch" /\ Len(first) = 0) =>
        /\ ~iter.panic
        /\ out = <<>>
        /\ last_ret \in {"", "None"}

\* C13: for every non-empty first, SuffixTree::new(first) runs to its end
\* with every index into the data below |first| and every child slot
\* within 0..256, in the main phases and in the phase of the end character.
C13_BuildInRange ==
    Len(first) > 0 => ~build.panic

(***************************************************************************)
(* Properties of the functions of lib.rs and of unique_strings.            *)
(***************************************************************************)
Seen == {seen[n] : n \in 1..Len(seen)}

\* C14: longest_common_substring returns the match of greatest length its
\* iterator returned, the first one enumerated among those of that length,
\* and (0,0,0) when the iterator returned no match.
C14_LongestFirstSeen ==
    (fn = "longest_common_substring" /\ status = "returned") =>
        IF seen = <<>>
        THEN longest = Match(0, 0, 0)
        ELSE \E n \in 1..Len(seen) :
                 /\ longest = seen[n]
                 /\ \A i \in 1..Len(seen) : seen[i].length <= seen[n].length
                 /\ \A i \in 1..(n - 1) : seen[i].length < seen[n].length

\* A call that returned the first of two matches of the greatest length,
\* after a shorter match had been enumerated.
C14_Witness ==
    /\ fn = "longest_common_substring" /\ status = "returned"
    /\ \E a, b \in 1..Len(seen) :
          /\ 1 < a /\ a < b
          /\ seen[a].length = seen[b].length
          /\ longest = seen[a]

Top == {top[a] : a \in 1..Len(top)}

Min(a, b) == IF a < b THEN a ELSE b

\* The place of match m in the enumeration (matches are enumerated once).
SeenAt(m) == CHOOSE n \in 1..Len(seen) : seen[n] = m

\* C15: for number >= 1, longest_common_substrings returns
\* min(number, matches enumerated) of the enumerated matches, in order of
\* non-increasing length, and no match it leaves out is strictly longer
\* than a match it returns.
C15_TopSorted ==
    (fn = "longest_common_substrings" /\ status = "returned" /\ number >= 1) =>
        /\ Len(top) = Min(number, Len(seen))
        /\ Top \subseteq Seen
        /\ Cardinality(Top) = Len(top)
        /\ \A a \in 1..(Len(top) - 1) : top[a].length >= top[a + 1].length
        /\ \A m \in Seen \ Top : \A t \in Top : m.length <= t.length

\* A call with number = 2 that returned two matches of different lengths
\* and left out matches enumerated before and after the ones it returned.
C15_Witness ==
    /\ fn = "longest_common_substrings" /\ status = "returned" /\ number = 2
    /\ Len(top) = 2 /\ top[1].length > top[2].length
    /\ \E m \in Seen \ Top : \E t \in Top : SeenAt(m) < SeenAt(t)
    /\ \E m \in Seen \ Top : \E t \in Top : SeenAt(m) > SeenAt(t)

\* C16 as stated: longest_common_substrings keeps ties in enumeration
\* order (of two returned matches of equal length the earlier-enumerated
\* comes first), and of two matches of equal length the truncation keeps
\* the earlier-enumerated.
C16_StableTies ==
    fn = "longest_common_substrings" =>
        /\ \A a, b \in 1..Len(top) :
              (a < b /\ top[a].length = top[b].length) => SeenAt(top[a]) < SeenAt(top[b])
        /\ \A d \in dropped : \A t \in Top :
              d.length = t.length => SeenAt(t) < SeenAt(d)

\* C16, amended: longest_common_substrings lists matches of equal length in
\* reverse enumeration order (the later-enumerated comes first), and of two
\* matches of equal length the truncation removes the earlier-enumerated.
C16_ReverseTies ==
    fn = "longest_common_substrings" =>
        /\ \A a, b \in 1..Len(top) :
              (a < b /\ top[a].length = top[b].length) => SeenAt(top[a]) > SeenAt(top[b])
        /\ \A d \in dropped : \A t \in Top :
              d.length = t.length => SeenAt(d) < SeenAt(t)

\* A call that returned two matches of equal length after the truncation
\* had removed a third of that length.
C16_Witness ==
    /\ fn = "longest_common_substrings" /\ status = "returned"
    /\ Len(top) = 2 /\ top[1].length = top[2].length
    /\ \E d \in dropped : d.length = top[2].length

\* C17: longest_common_substrings with number = 0 returns an empty list
\* without panicking, also when the iterator returns a match.  Stated for
\* the slices that hold a whole key, for which the iterator is constructed.
C17_TopZero ==
    (/\ fn = "longest_common_substrings" /\ number = 0
     /\ Len(first) >= param /\ Len(second) >= param) =>
        /\ status # "panicked"
        /\ status = "returned" => top = <<>>

\* C18: the list of patch_set, after every match it has processed and when
\* it returns, has strictly ascending second_pos and ranges
\* [second_pos, second_end) of second that do not overlap; every patch has
\* length >= 1 and spells the same bytes in first and second.
C18_PatchesDisjoint ==
    fn = "patch_set" =>
        /\ \A a \in 1..Len(patches) :
              /\ patches[a].length >= 1
              /\ CommonAt(patches[a].first_pos, patches[a].second_pos, patches[a].length)
        /\ \A a, b \in 1..Len(patches) :
              a < b => /\ patches[a].second_pos < patches[b].second_pos
                       /\ second_end(patches[a]) <= patches[b].second_pos

\* A call that returned a patch cut out of a longer match, right behind the
\* patch before it, after a match had replaced the last patch.
C18_Witness ==
    /\ fn = "patch_set" /\ status = "returned"
    /\ \E a \in 2..Len(patches) :
          /\ patches[a] \notin Seen
          /\ second_end(patches[a - 1]) = patches[a].second_pos
    /\ \E m \in Seen : \E a \in 1..Len(patches) :
          /\ m # patches[a]
          /\ m.second_pos = patches[a].second_pos
          /\ m.length < patches[a].length

\* Position x of second lies in the range <<lo, hi>>, in the patch m.
InRange(x, range) == range[1] <= x /\ x < range[2]
InPatch(x, m) == m.second_pos <= x /\ x < second_end(m)

\* unique_strings has returned for slices that hold a whole key.
UniqueReturned ==
    /\ fn = "unique_strings" /\ status = "returned"
    /\ Len(first) >= param /\ Len(second) >= param

\* C19: for |first| >= k and |second| >= k the ranges unique_strings returns
\* are disjoint and ascending, and with the ranges [second_pos, second_end)
\* of patch_set for the same key they partition [0, |second|): every byte
\* of second lies in exactly one range or patch.
C19_UniquesAndPatchesPartition ==
    UniqueReturned =>
        LET ps == patch_set(first, second, param, overflow_checks)
        IN  /\ \A a \in 1..Len(uniques) : uniques[a][1] < uniques[a][2]
            /\ \A a, b \in 1..Len(uniques) : a < b => uniques[a][2] <= uniques[b][1]
            /\ \A x \in 0..(Len(second) - 1) :
                  Cardinality({a \in 1..Len(uniques) : InRange(x, uniques[a])})
                  + Cardinality({a \in 1..Len(ps) : InPatch(x, ps[a])}) = 1

\* A call with a two-byte key that returned a range between two patches.
C19_Witness ==
    /\ UniqueReturned /\ param = 2
    /\ Len(patch_set(first, second, param, overflow_checks)) >= 2
    /\ Len(uniques) >= 1
    /\ uniques[1][1] > 0
    /\ uniques[1][2] < Len(second)

\* The window of second at i occurs in first.
WindowOccurs(i) ==
    \E p \in 0..(Len(first) - param) :
        SubSeq(first, p + 1, p + param) = SubSeq(second, i + 1, i + param)

\* The positions of second that no window occurring in first contains.
UniquePositions ==
    {x \in 0..(Len(second) - 1) :
        \A i \in 0..(Len(second) - param) :
            (i <= x /\ x < i + param) => ~WindowOccurs(i)}

\* C20: for |first| >= k and |second| >= k unique_strings returns exactly
\* the maximal non-empty ranges of positions of second that no window of
\* width k occurring in first contains, in ascending order.
C20_UniquesExact ==
    UniqueReturned =>
        /\ \A a \in 1..Len(uniques) :
              LET lo == uniques[a][1]
                  hi == uniques[a][2]
              IN  /\ lo < hi
                  /\ (lo..(hi - 1)) \subseteq UniquePositions
                  /\ (lo - 1) \notin UniquePositions
                  /\ hi \notin UniquePositions
        /\ \A x \in UniquePositions : \E a \in 1..Len(uniques) : InRange(x, uniques[a])
        /\ \A a, b \in 1..Len(uniques) : a < b => uniques[a][1] < uniques[b][1]

\* A call with a two-byte key that returned a range starting at 0, and
\* behind a window found in first a range that lost its first byte and was
\* extended to the end of second.
C20_Witness ==
    /\ UniqueReturned /\ param = 2
    /\ Len(uniques) = 2
    /\ uniques[1][1] = 0
    /\ uniques[2][1] > uniques[1][2] + 1
    /\ uniques[2][2] = Len(second)

\* The positions of second that lie in a match of ms.
Covered(ms) == {x \in 0..(Len(second) - 1) : \E m \in ms : InPatch(x, m)}

\* The range lo..hi-1 of second is a sub-range of an emitted match.
IsPiece(lo, hi) == \E m \in Seen : m.second_pos <= lo /\ hi <= second_end(m)

SetMin(S) == CHOOSE n \in S : \A o \in S : n <= o

\* The fewest pieces, none overlapping another, that cover exactly the
\* positions >= x of Covered(Seen): the piece that covers the first such
\* position starts there, and every end it may have is tried.
RECURSIVE FewestPieces(_)
FewestPieces(x) ==
    IF x >= Len(second) THEN 0
    ELSE IF x \notin Covered(Seen) THEN FewestPieces(x + 1)
    ELSE 1 + SetMin({FewestPieces(hi) : hi \in {e \in (x + 1)..Len(second) : IsPiece(x, e)}})

\* C21: the list patch_set returns covers exactly the positions of second
\* that the emitted matches cover, each of its patches is a sub-range of an
\* emitted match on that match's diagonal, and no list of fewer such
\* pieces, none overlapping another in second, covers the same positions.
C21_PatchSetMinimal ==
    (fn = "patch_set" /\ status = "returned") =>
        /\ Covered(Range(patches)) = Covered(Seen)
        /\ \A a \in 1..Len(patches) : \E m \in Seen :
              /\ m.first_pos - m.second_pos = patches[a].first_pos - patches[a].second_pos
              /\ m.second_pos <= patches[a].second_pos
              /\ second_end(patches[a]) <= second_end(m)
        /\ Len(patches) = FewestPieces(0)

\* A call that returned two patches or more behind one another, the later
\* one cut out of a longer match, after emitting more matches than it
\* returned patches and a match that reaches further than an earlier one
\* from the same position.
C21_Witness ==
    /\ fn = "patch_set" /\ status = "returned"
    /\ Len(patches) >= 2 /\ Len(seen) > Len(patches)
    /\ \E a \in 2..Len(patches) :
          patches[a] \notin Seen /\ second_end(patches[a - 1]) = patches[a].second_pos
    /\ \E m, n \in Seen : m.second_pos = n.second_pos /\ m.length < n.length

(***************************************************************************)
(* Properties of the suffix tree SuffixTree::new(first) has built.         *)
(***************************************************************************)
\* SuffixTree::new(first) has returned.
Built == Len(first) > 0 /\ phase = Len(first) + 1 /\ ~build.panic

Children(n) == {build.nodes[n].edges[slot] : slot \in DOMAIN build.nodes[n].edges}

IsLeaf(n) == DOMAIN build.nodes[n].edges = {}

Leaves == {n \in DOMAIN build.nodes : IsLeaf(n)}

Tip(path) == path[Len(path)]

\* The paths that extend path by child edges without visiting a node twice,
\* path itself included.
RECURSIVE PathsFrom(_, _)
PathsFrom(path, fuel) ==
    {path} \cup
    IF fuel = 0 THEN {}
    ELSE UNION {PathsFrom(Append(path, c), fuel - 1) : c \in Children(Tip(path)) \ Range(path)}

RootPaths == PathsFrom(<<0>>, NumNodes(build.nodes))

LeafPaths == {path \in RootPaths : IsLeaf(Tip(path))}

\* The bytes first[start..end) on the edge into node n.
Label(n) ==
    IF build.nodes[n].start < build.nodes[n].end
    THEN SubSeq(first, build.nodes[n].start + 1, build.nodes[n].end) ELSE <<>>

\* What the edge from parent to child spells in first $: $ (written 256) for
\* an edge in slot 256; otherwise its bytes, and behind them the $ that ends
\* first $ when the edge is a leaf's and so runs to the end of first.
EdgeString(parent, child) ==
    IF Edge(build.nodes[parent], EndSlot) = child THEN <<EndSlot>>
    ELSE Label(child) \o (IF IsLeaf(child) THEN <<EndSlot>> ELSE <<>>)

RECURSIVE SpelledFrom(_, _)
SpelledFrom(path, n) ==
    IF n >= Len(path) THEN <<>>
    ELSE EdgeString(path[n], path[n + 1]) \o SpelledFrom(path, n + 1)

Spelled(path) == SpelledFrom(path, 1)

\* The number of bytes of first on the path.
RECURSIVE DepthFrom(_, _)
DepthFrom(path, n) ==
    IF n > Len(path) THEN 0
    ELSE edge_length(build.nodes[path[n]]) + DepthFrom(path, n + 1)

Depth(path) == DepthFrom(path, 2)

\* The suffix of first $ that starts at position s of first.
Suffix(s) ==
    (IF s < Len(first) THEN SubSeq(first, s + 1, Len(first)) ELSE <<>>) \o <<EndSlot>>

\* C22: after SuffixTree::new(first) for a non-empty first, the strings the
\* root-to-leaf paths spell are exactly the |first| + 1 suffixes of first $,
\* and for every leaf, end(leaf) minus the depth of its path is the position
\* in first where the suffix its path spells starts.
C22_PathsSpellSuffixes ==
    Built =>
        /\ {Spelled(path) : path \in LeafPaths} = {Suffix(s) : s \in 0..Len(first)}
        /\ \A path \in LeafPaths :
              LET s == build.nodes[Tip(path)].end - Depth(path)
              IN  s \in 0..Len(first) /\ Spelled(path) = Suffix(s)

\* C23: after SuffixTree::new(first) for a non-empty first, the tree has
\* |first| + 1 leaves, and no node created as a leaf has a child.  The nodes
\* created as leaves are those whose edge ends at |first|: a split node ends
\* inside the edge it splits.
C23_LeafCount ==
    Built =>
        /\ Cardinality(Leaves) = Len(first) + 1
        /\ \A n \in DOMAIN build.nodes :
              (n # 0 /\ build.nodes[n].end = Len(first)) => IsLeaf(n)

\* C24: after SuffixTree::new(first), the root has no suffix link, no
\* suffix link points to a leaf, and for every internal node v other than
\* the root, whose root path spells x alpha with x one byte: if alpha is
\* empty its suffix link is unset or the root, and otherwise it is set and
\* points to the internal node whose root path spells alpha.
C24_SuffixLinks ==
    Built =>
        /\ build.nodes[0].suffix_link = NONE
        /\ \A n \in DOMAIN build.nodes :
              build.nodes[n].suffix_link # NONE => ~IsLeaf(build.nodes[n].suffix_link)
        /\ \A path \in RootPaths :
              LET v == Tip(path)
                  link == build.nodes[v].suffix_link
                  alpha == Tail(Spelled(path))
              IN  (v # 0 /\ ~IsLeaf(v)) =>
                      IF alpha = <<>> THEN link \in {NONE, 0}
                      ELSE /\ link \notin {NONE, 0}
                           /\ \E to \in RootPaths : Tip(to) = link /\ Spelled(to) = alpha

(***************************************************************************)
(* Properties of the enumerators: the diagonal map, the two suppression    *)
(* tests, termination.                                                     *)
(***************************************************************************)
Diagonal(m) == m.first_pos - m.second_pos

\* The matches returned on diagonal delta since construction or the last
\* reset.
ReturnedOn(delta) == {m \in Returns : Diagonal(m) = delta}

SetMax(S) == CHOOSE n \in S : \A o \in S : n >= o

HashMatchDrain ==
    HashDrain(HashMatchIterator_new(first, second, param, overflow_checks),
              first, second, param, <<>>)

\* C26: lib.rs's MatchIterator (skips when reach > j) and hashmatch.rs's
\* HashMatchIterator (skips when reach >= j) return the same sequence of
\* matches: what MatchIterator has returned so far is the beginning of
\* HashMatchIterator's sequence, and all of it once MatchIterator has
\* returned None.
C26_SameSequence ==
    fn \in Functions \ {"unique_strings"} =>
        /\ IsPrefix(seen, HashMatchDrain)
        /\ status = "returned" => seen = HashMatchDrain

\* A drained MatchIterator that returned two matches on one diagonal and
\* skipped a position of first where the key of second occurred.
C26_Witness ==
    /\ fn = "longest_common_substring" /\ status = "returned"
    /\ \E m, n \in Seen : m # n /\ Diagonal(m) = Diagonal(n)
    /\ \E p \in 0..(Len(first) - param), q \in 0..(Len(second) - param) :
          /\ CommonAt(p, q, param)
          /\ \A m \in Seen : ~(m.first_pos = p /\ m.second_pos = q)

\* The inputs the enumerator is specified for: slices that hold a key for
\* HashMatch, a first slice that is not empty for TreeMatch.
ValidInputs ==
    IF algo = "HashMatch" THEN Len(first) >= param /\ Len(second) >= param
    ELSE Len(first) >= 1

\* The next() call of the enumerator in its present state.
NextCall ==
    IF algo = "HashMatch" THEN HashMatchIterator_next(iter, first, second, param)
    ELSE TreeMatchIterator_next(iter, first, second, overflow_checks)

\* C27: on valid inputs a next() call of either enumerator returns a match
\* or None (it does not panic, and its loops end), an enumeration returns at
\* most |first| * |second| matches, once next() has returned None the next
\* call returns None again, with no further match, until reset() is called,
\* and a caller that keeps calling next() gets None unless it goes on
\* calling reset().
C27_NextTerminates ==
    /\ [][ValidInputs =>
             /\ ~iter'.panic
             /\ Len(out') <= Len(first) * Len(second)
             /\ (last_ret = "None" /\ last_ret' # "") => (last_ret' = "None" /\ out' = out)]_vars
    /\ []((ValidInputs /\ ~iter.panic /\ last_ret = "None") => NextCall.ret = "None")
    /\ (ValidInputs /\ ~iter.panic) => []<>(last_ret \in {"None", ""})

\* An enumerator over valid inputs that returned two matches or more and
\* then None, was reset after a None, and has returned None again.
C27_Witness ==
    /\ ValidInputs /\ ~iter.panic
    /\ last_ret = "None" /\ reset_from = "exhausted"
    /\ Len(out) >= 2

=============================================================================
